---- MODULE Spec2Model ----
(***************************************************************************)
(* USB meter dashboard: the reader (src/3usb_meter.py, USBMeterReader),    *)
(* the plot window (PlotterWindow) and the report generator                *)
(* (src/reporter.py), as one state machine on the single Qt event loop.    *)
(*                                                                         *)
(* Representation of the floats.  Every quantity is kept as an exact       *)
(* integer numerator over a fixed denominator:                             *)
(*   voltage, current   raw device units; volts = raw / VoltageScale       *)
(*   power              voltage * current (raw * raw)                      *)
(*   temperature        temp_raw (degrees = raw / 10), or NaN              *)
(*   dp, dn             millivolts (volts = mV / 1000)                     *)
(*   time               ticks, TicksPerSec ticks to the second             *)
(*   cumulative_mAh     sum of current_raw * ticks;                        *)
(*                      mAh = value * 1000 / (100000 * 3600 * TicksPerSec) *)
(*   a mean             the pair <<sum, count>>                            *)
(* The wall clock time.time() is taken to be non-decreasing.               *)
(***************************************************************************)
EXTENDS Integers, Sequences, FiniteSets, TLC

VARIABLES
    now,        \* wall clock, in ticks
    pollDue,    \* next expiry of poll_timer
    kaDue,      \* next expiry of keepalive_timer
    alive,      \* the reader object exists and its timers run
    reader,     \* USBMeterReader fields; log_file is an index into handles
    handles,    \* the file objects opened so far: [name, open]
    disk,       \* file system: name -> sequence of written lines
    pdfs,       \* reports written by reporter.py: csv name -> report
    window,     \* PlotterWindow fields
    accepted,   \* history: samples accepted since the last reset
    invoked,    \* history: the files handed to reporter.py, [name, open]
    resets,     \* history: number of session resets
    lastRead    \* history: first two bytes of the last packet read, or NoPacket

vars == <<now, pollDue, kaDue, alive, reader, handles, disk, pdfs, window,
          accepted, invoked, resets, lastRead>>

---------------------------------------------------------------------------
(* Bounds of the exploration *)
TicksPerSec == 2
MaxTime     == 6
MaxResets   == 2
MaxRows     == 4
LongSlack   == 3
PlotSeconds == 18

(* Program constants *)
BufferCap    == 1800
VoltageScale == 100000
CurrentScale == 100000
Marker       == 170
DataSubtype  == 4
PacketLen    == 64
TempLimit    == 1000
TimerPeriodMs == 1000
NaN          == 0 - 1

Period  == (TimerPeriodMs * TicksPerSec) \div 1000

Max(a, b) == IF a > b THEN a ELSE b
Min(a, b) == IF a < b THEN a ELSE b

---------------------------------------------------------------------------
(* Float arithmetic with the not-a-number value *)
FAdd(a, b) == IF a = NaN \/ b = NaN THEN NaN ELSE a + b

(* Python's sum(y[lo:hi]) on a 1-based sequence: y[lo] + ... + y[hi] *)
RECURSIVE SumSlice(_, _, _)
SumSlice(y, lo, hi) == IF lo > hi THEN 0 ELSE FAdd(SumSlice(y, lo, hi - 1), y[hi])

---------------------------------------------------------------------------
(* Packet decoder: poll(), lines 132-142 *)

RECURSIVE Pow256(_)
Pow256(k) == IF k = 0 THEN 1 ELSE 256 * Pow256(k - 1)

(* int.from_bytes(data[lo:hi], 'little'); data[i] of Python is data[i+1] here *)
RECURSIVE FromBytesLE(_, _, _)
FromBytesLE(data, lo, hi) ==
    IF lo >= hi THEN 0
    ELSE FromBytesLE(data, lo, hi - 1) + data[hi] * Pow256(hi - 1 - lo)

ToBytesLE(x, n) == [k \in 1..n |-> (x \div Pow256(k - 1)) % 256]

(* A 64-byte report as the meter's firmware lays it out *)
Packet(b0, b1, uV, uA, dp, dn, traw) ==
    <<b0, b1>> \o ToBytesLE(uV, 4) \o ToBytesLE(uA, 4) \o ToBytesLE(dp, 2)
        \o ToBytesLE(dn, 2) \o <<0>> \o ToBytesLE(traw, 2)
        \o [k \in 1..(PacketLen - 17) |-> 0]

(* Variant: only the marker byte is looked at *)
HeaderOkMarkerOnly(data) == data[1] = Marker

HeaderOk(data) == data[1] = Marker /\ data[2] = DataSubtype

TempC(temp_raw) == IF 0 < temp_raw /\ temp_raw < TempLimit THEN temp_raw ELSE NaN

Decode(data) ==
    LET voltage == FromBytesLE(data, 2, 6)
        current == FromBytesLE(data, 6, 10)
    IN  [voltage     |-> voltage,
         current     |-> current,
         power       |-> voltage * current,
         temperature |-> TempC(FromBytesLE(data, 15, 17)),
         dp          |-> FromBytesLE(data, 10, 12),
         dn          |-> FromBytesLE(data, 12, 14)]

---------------------------------------------------------------------------
(* Capacity integrator: poll(), lines 144-147 *)

(* Variant: the interval taken backwards *)
IntegrateReversed(cum, last, t, current) == cum + current * (last - t)

Integrate(cum, last, t, current) == cum + current * (t - last)

---------------------------------------------------------------------------
(* CSV logger *)
HeaderRow == <<"header", <<"Timestamp (s)", "Voltage (V)", "Current (A)", "Power (W)",
                           "Temperature (C)", "DP (V)", "DN (V)", "mAh">>>>

(* f"{elapsed_time:.2f}": the elapsed seconds rounded to hundredths *)
Format2(ticks) == (2 * 100 * ticks + TicksPerSec) \div (2 * TicksPerSec)

DataRow(elapsed, s, mah) ==
    <<"data", <<Format2(elapsed), s.voltage, s.current, s.power, s.temperature,
                s.dp, s.dn, mah>>>>

(* strftime('%Y%m%d_%H%M%S'): the name carries the wall clock to the second *)
LogName(t) == t \div TicksPerSec

HasFile(fs, name) == name \in DOMAIN fs

WriteFile(fs, name, lines) ==
    [n \in DOMAIN fs \cup {name} |-> IF n = name THEN lines ELSE fs[n]]

(* file.close(); closing a closed file does nothing *)
CloseAll(hs, i) == [k \in 1..Len(hs) |-> IF k = i THEN [hs[k] EXCEPT !.open = FALSE] ELSE hs[k]]

(* init_logging(): close the current file object if there is one, open a
   file named after the wall clock in mode 'w' (truncating), write the header *)
InitLoggingHandles(hs, t) ==
    Append(CloseAll(hs, Len(hs)), [name |-> LogName(t), open |-> TRUE])

(* Variant: the file is opened in mode 'a' *)
InitLoggingDiskAppendMode(fs, t) ==
    WriteFile(fs, LogName(t),
              (IF HasFile(fs, LogName(t)) THEN fs[LogName(t)] ELSE <<>>) \o <<HeaderRow>>)

InitLoggingDisk(fs, t) == WriteFile(fs, LogName(t), <<HeaderRow>>)

(* reinitialize(), lines 119-121 *)
Reinitialize(r, t) ==
    [r EXCEPT !.start_time = t, !.last_timestamp = t, !.cumulative_mAh = 0]

---------------------------------------------------------------------------
(* Plot window *)
Labels == <<"Voltage (V)", "Current (A)", "Power (W)", "Temperature (C)">>
Keys   == <<"voltage", "current", "power", "temperature">>
LabelSet == {Labels[i] : i \in 1..4}
KeyOf(label) == Keys[CHOOSE i \in 1..4 : Labels[i] = label]

(* smoothing_selector.addItems(...): each text as its characters *)
SelectorItems == << <<"N", "o", "n", "e">>, <<"F", "2">>, <<"F", "4">>,
                    <<"F", "8">>, <<"F", "1", "6">> >>

DigitOf(c) == CASE c = "0" -> 0 [] c = "1" -> 1 [] c = "2" -> 2 [] c = "3" -> 3
                [] c = "4" -> 4 [] c = "5" -> 5 [] c = "6" -> 6 [] c = "7" -> 7
                [] c = "8" -> 8 [] c = "9" -> 9

RECURSIVE ParseInt(_)
ParseInt(s) == IF s = <<>> THEN 0
               ELSE 10 * ParseInt(SubSeq(s, 1, Len(s) - 1)) + DigitOf(s[Len(s)])

(* get_smoothing_window() *)
GetSmoothingWindow(index) ==
    LET selected == SelectorItems[index + 1]
    IN  IF selected = <<"N", "o", "n", "e">> THEN 1 ELSE ParseInt(Tail(selected))

(* Variant: buf.pop() in place of buf.pop(0) *)
AppendBufPopNewest(buf, entry) ==
    LET b == Append(buf, entry)
    IN  IF Len(b) > BufferCap THEN SubSeq(b, 1, Len(b) - 1) ELSE b

(* buf.append(entry); if len(buf) > 1800: buf.pop(0) *)
AppendBuf(buf, entry) ==
    LET b == Append(buf, entry)
    IN  IF Len(b) > BufferCap THEN Tail(b) ELSE b

YData(buf) == [i \in 1..Len(buf) |-> buf[i][2]]

(* Variant: the test smooth_window >= 1 *)
SmoothFromOne(ydata, W) ==
    IF W >= 1 /\ Len(ydata) >= W
    THEN [j \in 1..Len(ydata) |->
            LET i     == j - 1
                start == Max(0, i - W + 1)
            IN  <<SumSlice(ydata, start + 1, i + 1), i - start + 1>>]
    ELSE <<>>

(* Variant: the window starts one sample early *)
SmoothWide(ydata, W) ==
    IF W > 1 /\ Len(ydata) >= W
    THEN [j \in 1..Len(ydata) |->
            LET i     == j - 1
                start == Max(0, i - W)
            IN  <<SumSlice(ydata, start + 1, i + 1), i - start + 1>>]
    ELSE <<>>

(* The smoothed curve: lines 271-279.  An empty sequence is a cleared curve. *)
Smooth(ydata, W) ==
    IF W > 1 /\ Len(ydata) >= W
    THEN [j \in 1..Len(ydata) |->
            LET i     == j - 1
                start == Max(0, i - W + 1)
            IN  <<SumSlice(ydata, start + 1, i + 1), i - start + 1>>]
    ELSE <<>>

(* update_plots(data) *)
UpdatePlots(w, t, data) ==
    LET timestamp == t - w.graph_start_time
        bufs == [l \in LabelSet |->
                    AppendBuf(w.data_buffers[l], <<timestamp, data[KeyOf(l)]>>)]
    IN  [w EXCEPT !.data_buffers = bufs,
                  !.smooth_curves = [l \in LabelSet |->
                        Smooth(YData(bufs[l]), GetSmoothingWindow(w.selector))]]

---------------------------------------------------------------------------
(* Report generator, src/reporter.py *)

Column(lines, k) == [i \in 1..(Len(lines) - 1) |-> lines[i + 1][2][k]]

(* next(i for i, v in enumerate(voltage) if v > 0.1 and current[i] > 0.01),
   1-based; 0 when the generator is exhausted (StopIteration) *)
(* Variant: either threshold suffices *)
QualifiesEither(v, c) == 10 * v > VoltageScale \/ 100 * c > CurrentScale

Qualifies(v, c) == 10 * v > VoltageScale /\ 100 * c > CurrentScale

RECURSIVE FirstFrom(_, _, _)
FirstFrom(voltage, current, i) ==
    IF i > Len(voltage) THEN 0
    ELSE IF Qualifies(voltage[i], current[i]) THEN i
    ELSE FirstFrom(voltage, current, i + 1)

StartIndex(voltage, current) == FirstFrom(voltage, current, 1)

Mean(col, from) == <<SumSlice(col, from, Len(col)), Len(col) - from + 1>>

RECURSIVE MaxFrom(_, _)
MaxFrom(col, from) ==
    IF from = Len(col) THEN col[from] ELSE Max(col[from], MaxFrom(col, from + 1))

RECURSIVE MinFrom(_, _)
MinFrom(col, from) ==
    IF from = Len(col) THEN col[from] ELSE Min(col[from], MinFrom(col, from + 1))

Failed == [ok |-> FALSE]

(* The module body of reporter.py on the lines of one CSV file *)
Report(lines) ==
    LET timestamp   == Column(lines, 1)
        voltage     == Column(lines, 2)
        current     == Column(lines, 3)
        power       == Column(lines, 4)
        temperature == Column(lines, 5)
        mAh         == Column(lines, 8)
        n           == Len(lines) - 1
        s           == StartIndex(voltage, current)
    IN  IF n = 0 \/ s = 0 THEN Failed
        ELSE [ok             |-> TRUE,
              start_index    |-> s,
              start_voltage  |-> voltage[s],
              end_voltage    |-> voltage[n],
              start_current  |-> current[s],
              end_current    |-> current[n],
              start_temp     |-> temperature[s],
              end_temp       |-> temperature[n],
              total_duration |-> timestamp[n] - timestamp[s],
              total_mAh      |-> mAh[n] - mAh[s],
              avg_voltage    |-> Mean(voltage, s),
              avg_current    |-> Mean(current, s),
              avg_power      |-> Mean(power, s),
              avg_temp       |-> Mean(temperature, s),
              max_current    |-> MaxFrom(current, s),
              min_current    |-> MinFrom(current, s),
              max_power      |-> MaxFrom(power, s),
              min_power      |-> MinFrom(power, s)]

(* reporter.py as a process: the PDF appears only when the body runs through *)
RunReporterProcess(out, fs, name) ==
    LET rep == Report(fs[name])
    IN  IF rep.ok
        THEN [n \in DOMAIN out \cup {name} |-> IF n = name THEN rep ELSE out[n]]
        ELSE out


---------------------------------------------------------------------------
(* The inputs *)
GoodPackets == { Packet(Marker, DataSubtype, 30000, 5000, 600, 590, 250),
                 Packet(Marker, DataSubtype, 10000, 2000, 3300, 10, TempLimit) }
BadPackets  == { Packet(Marker, 5, 30000, 5000, 600, 590, 250),
                 Packet(0, DataSubtype, 30000, 5000, 600, 590, 250) }
Packets     == GoodPackets \cup BadPackets

(* How a run of reporter.py can go: <<reporter.py exists, ticks it blocks>> *)
ReporterRuns == { <<FALSE, 0>>, <<TRUE, 0>>, <<TRUE, 1>> }

(* What ep_in.read left behind when it raised *)
NoPacket == <<NaN, NaN>>

---------------------------------------------------------------------------
(* State after main() has built the reader and the window and start() has
   armed both timers *)
NoBuffers == [l \in LabelSet |-> <<>>]

Init ==
    /\ now = 0
    /\ pollDue = Period
    /\ kaDue = Period
    /\ alive = TRUE
    /\ handles = InitLoggingHandles(<<>>, 0)
    /\ disk = InitLoggingDisk(<<>>, 0)
    /\ reader = [log_file |-> 1, start_time |-> 0, last_timestamp |-> 0,
                 cumulative_mAh |-> 0, device |-> "meter", interface |-> "hid",
                 ep_in |-> "in", ep_out |-> "out"]
    /\ pdfs = <<>>
    /\ window = [graph_start_time |-> 0, data_buffers |-> NoBuffers,
                 smooth_curves |-> NoBuffers, selector |-> 2]
    /\ accepted = <<>>
    /\ invoked = {}
    /\ resets = 0
    /\ lastRead = NoPacket

(* The wall clock advances; with punctual timers it waits for due handlers *)
Tick(step, horizon, punctual) ==
    /\ alive
    /\ now + step <= horizon
    /\ punctual => (now < pollDue /\ now < kaDue)
    /\ now' = now + step
    /\ UNCHANGED <<pollDue, kaDue, alive, reader, handles, disk, pdfs, window,
                   accepted, invoked, resets, lastRead>>

(* send_keepalive(): the write succeeds or raises USBError; both leave the state *)
SendKeepalive ==
    /\ alive
    /\ now >= kaDue
    /\ kaDue' = now + Period
    /\ UNCHANGED <<now, pollDue, alive, reader, handles, disk, pdfs, window,
                   accepted, invoked, resets, lastRead>>

(* Variant: last_timestamp is not advanced *)
PollAcceptKeepLast(r, t, s) ==
    [r EXCEPT !.cumulative_mAh = Integrate(r.cumulative_mAh, r.last_timestamp, t, s.current)]

(* The reader's fields after an accepted packet: lines 144-147 *)
PollAccept(r, t, s) ==
    [r EXCEPT !.cumulative_mAh = Integrate(r.cumulative_mAh, r.last_timestamp, t, s.current),
              !.last_timestamp = t]

(* csv_writer.writerow(row) on the current file object *)
WriteRow(fs, h, row) == WriteFile(fs, h.name, Append(fs[h.name], row))

(* poll(): ep_in.read raises USBError, or returns a packet *)
Poll(packets, errors) ==
    /\ alive
    /\ now >= pollDue
    /\ pollDue' = now + Period
    /\ \/ /\ errors
          /\ lastRead' = NoPacket
          /\ UNCHANGED <<reader, disk, window, accepted>>
       \/ \E data \in packets :
            /\ lastRead' = <<data[1], data[2]>>
            /\ IF HeaderOk(data)
               THEN LET s  == Decode(data)
                        r2 == PollAccept(reader, now, s)
                        h  == handles[reader.log_file]
                        d  == [voltage |-> s.voltage, current |-> s.current,
                               power |-> s.power, temperature |-> s.temperature,
                               dp |-> s.dp, dn |-> s.dn, mah |-> r2.cumulative_mAh]
                    IN  /\ reader' = r2
                        /\ IF h.open
                           THEN /\ disk' = WriteRow(disk, h,
                                       DataRow(now - reader.start_time, s, r2.cumulative_mAh))
                                /\ window' = UpdatePlots(window, now, d)
                                /\ accepted' = Append(accepted,
                                       [t |-> now, data |-> d, after |-> lastRead])
                           ELSE UNCHANGED <<disk, window, accepted>>
               ELSE UNCHANGED <<reader, disk, window, accepted>>
    /\ UNCHANGED <<now, kaDue, alive, handles, pdfs, invoked, resets>>

(* The user picks another entry of the smoothing selector *)
SelectSmoothing(indexes) ==
    /\ alive
    /\ \E i \in indexes :
          /\ i # window.selector
          /\ window' = [window EXCEPT !.selector = i]
    /\ UNCHANGED <<now, pollDue, kaDue, alive, reader, handles, disk, pdfs,
                   accepted, invoked, resets, lastRead>>

(* run_reporter(): subprocess.run blocks the event loop until reporter.py ends *)
RunReporter(out, fs, h, present) ==
    IF present THEN RunReporterProcess(out, fs, h.name) ELSE out

(* reset_session(): close, report, clear the buffers, reinitialize() *)
ResetSession(times, maxResets, runs, horizon) ==
    /\ alive
    /\ resets < maxResets
    /\ now \in times
    /\ \E run \in runs :
          LET closed == CloseAll(handles, reader.log_file)
              t      == now + run[2]
          IN  /\ t <= horizon
              /\ pdfs' = RunReporter(pdfs, disk, closed[reader.log_file], run[1])
              /\ invoked' = IF run[1] THEN invoked \cup {closed[reader.log_file]}
                                      ELSE invoked
              /\ now' = t
              /\ window' = [window EXCEPT !.graph_start_time = t,
                                          !.data_buffers = NoBuffers]
              /\ handles' = InitLoggingHandles(closed, t)
              /\ disk' = InitLoggingDisk(disk, t)
              /\ reader' = [Reinitialize(reader, t) EXCEPT !.log_file = Len(closed) + 1]
    /\ accepted' = <<>>
    /\ resets' = resets + 1
    /\ UNCHANGED <<pollDue, kaDue, alive, lastRead>>

(* __del__(): close the log and run the reporter; nothing runs afterwards *)
Teardown(runs, horizon) ==
    /\ alive
    /\ \E run \in runs :
          LET closed == CloseAll(handles, reader.log_file)
          IN  /\ now + run[2] <= horizon
              /\ now' = now + run[2]
              /\ handles' = closed
              /\ pdfs' = RunReporter(pdfs, disk, closed[reader.log_file], run[1])
              /\ invoked' = IF run[1] THEN invoked \cup {closed[reader.log_file]}
                                      ELSE invoked
    /\ alive' = FALSE
    /\ UNCHANGED <<pollDue, kaDue, reader, disk, window, accepted, resets, lastRead>>

(* The session: any interleaving of the two timers, resets and the teardown,
   handlers possibly late.  The smoothing selector is exercised in SpecPlot. *)
Next ==
    \/ Tick(1, MaxTime, FALSE)
    \/ SendKeepalive
    \/ Poll(Packets, TRUE)
    \/ ResetSession(0..MaxTime, MaxResets, ReporterRuns, MaxTime)
    \/ Teardown(ReporterRuns, MaxTime)

Spec == Init /\ [][Next]_vars

---------------------------------------------------------------------------
(* A steady measurement: the meter answers every poll, on time, with the
   packet StreamPacket(now); reporter.py is not installed *)
StreamPacket(t) ==
    Packet(Marker, DataSubtype, 100 + (t % 7), 50000, 600, 590, (37 * t) % 1100)

(* What poll() emits for the k-th packet of a steady measurement that began
   at time 0: the k-th poll runs at k * Period.  The fields are those of
   Decode(StreamPacket(k * Period)), written out. *)
StreamData(k) ==
    LET t == k * Period
        v == 100 + (t % 7)
    IN  [voltage |-> v, current |-> 50000, power |-> v * 50000,
         temperature |-> TempC((37 * t) % 1100), dp |-> 600, dn |-> 590,
         mah |-> 50000 * t]

StreamRow(k) ==
    LET d == StreamData(k)
    IN  <<"data", <<Format2(k * Period), d.voltage, d.current, d.power,
                    d.temperature, d.dp, d.dn, d.mah>>>>

(* The program after n polls of a steady measurement, with the smoothing
   selector set to "None" before the first of them *)
SteadyDisk(n) == WriteFile(<<>>, 0, <<HeaderRow>> \o [k \in 1..n |-> StreamRow(k)])

SteadyReader(n) ==
    [log_file |-> 1, start_time |-> 0, last_timestamp |-> n * Period,
     cumulative_mAh |-> 50000 * n * Period,
     device |-> "meter", interface |-> "hid", ep_in |-> "in", ep_out |-> "out"]

SteadyWindow(n) ==
    [graph_start_time |-> 0,
     data_buffers |-> [l \in LabelSet |->
                          [k \in 1..n |-> <<k * Period, StreamData(k)[KeyOf(l)]>>]],
     smooth_curves |-> NoBuffers, selector |-> 0]

SteadyAccepted(n) ==
    [k \in 1..n |-> [t |-> k * Period, data |-> StreamData(k),
                     after |-> IF k = 1 THEN NoPacket ELSE <<Marker, DataSubtype>>]]

InSteady(n) ==
    /\ now = n * Period
    /\ pollDue = (n + 1) * Period
    /\ kaDue = (n + 1) * Period
    /\ alive = TRUE
    /\ handles = InitLoggingHandles(<<>>, 0)
    /\ disk = SteadyDisk(n)
    /\ reader = SteadyReader(n)
    /\ pdfs = <<>>
    /\ window = SteadyWindow(n)
    /\ accepted = SteadyAccepted(n)
    /\ invoked = {}
    /\ resets = 0
    /\ lastRead = IF n = 0 THEN NoPacket ELSE <<Marker, DataSubtype>>

(* The first LongStart polls of a steady measurement, from construction *)
LongStart == BufferCap - LongSlack

InitCold == InSteady(0)

NextCold ==
    \/ Tick(Period, LongStart * Period, TRUE)
    \/ SendKeepalive
    \/ Poll({StreamPacket(now)}, FALSE)

SpecCold == InitCold /\ [][NextCold]_vars

(* Every run of SpecCold passes through Steady(n) for each n, so
   Steady(LongStart) is a state of the program *)
ColdReachesSteady ==
    (now < pollDue /\ now < kaDue /\ (now <= LongSlack * Period \/ now = LongStart * Period))
        => InSteady(now \div Period)

(* The same measurement, taken up shortly before the buffers fill *)
LongTime == (BufferCap + LongSlack) * Period

InitLong == InSteady(LongStart)

NextLong ==
    \/ Tick(Period, LongTime, TRUE)
    \/ SendKeepalive
    \/ Poll({StreamPacket(now)}, FALSE)
    \/ ResetSession(0..LongTime, 1, {<<FALSE, 0>>}, LongTime)

SpecLong == InitLong /\ [][NextLong]_vars

---------------------------------------------------------------------------
(* A short measurement in which the user plays with the smoothing selector *)
PlotTime == PlotSeconds * Period

NextPlot ==
    \/ Tick(Period, PlotTime, TRUE)
    \/ SendKeepalive
    \/ Poll({StreamPacket(now)}, FALSE)
    \/ SelectSmoothing(0..4)
    \/ ResetSession(0..PlotTime, 1, {<<FALSE, 0>>}, PlotTime)

SpecPlot == Init /\ [][NextPlot]_vars

---------------------------------------------------------------------------
(* reporter.py run by hand on a CSV file; no dashboard is running *)
CsvRows == { <<"data", <<0,   10000, 5000, 7,  200, 600, 590, 0>>>>,
             <<"data", <<150, 30000, 1000, 11, NaN, 600, 590, 3>>>>,
             <<"data", <<275, 10001, 1001, 13, 250, 600, 590, 10>>>>,
             <<"data", <<410, 42000, 6000, 5,  NaN, 600, 590, 25>>>>,
             <<"data", <<500, 0,     0,    0,  300, 0,   0,   25>>>> }

CsvFiles == { <<HeaderRow>> \o rows : rows \in UNION { [1..n -> CsvRows] : n \in 0..MaxRows } }

InitReport ==
    /\ now = 0
    /\ pollDue = Period
    /\ kaDue = Period
    /\ alive = FALSE
    /\ handles = <<>>
    /\ disk \in { WriteFile(<<>>, 0, f) : f \in CsvFiles }
    /\ reader = [log_file |-> 0, start_time |-> 0, last_timestamp |-> 0,
                 cumulative_mAh |-> 0, device |-> "none", interface |-> "none",
                 ep_in |-> "none", ep_out |-> "none"]
    /\ pdfs = <<>>
    /\ window = [graph_start_time |-> 0, data_buffers |-> NoBuffers,
                 smooth_curves |-> NoBuffers, selector |-> 2]
    /\ accepted = <<>>
    /\ invoked = {}
    /\ resets = 0
    /\ lastRead = NoPacket

ReporterMain ==
    /\ ~alive
    /\ invoked = {}
    /\ \E name \in DOMAIN disk :
          /\ pdfs' = RunReporterProcess(pdfs, disk, name)
          /\ invoked' = {[name |-> name, open |-> FALSE]}
    /\ UNCHANGED <<now, pollDue, kaDue, alive, reader, handles, disk, window,
                   accepted, resets, lastRead>>

NextReport == ReporterMain

SpecReport == InitReport /\ [][NextReport]_vars

---------------------------------------------------------------------------
(* Steps, as the history shows them *)
PollStep   == pollDue' # pollDue
ResetStep  == resets' = resets + 1
AcceptStep == Len(accepted') = Len(accepted) + 1

(* Sums written out independently of the program's own summation *)
RECURSIVE PlainSum(_, _, _)
PlainSum(f, lo, hi) == IF lo > hi THEN 0 ELSE f[lo] + PlainSum(f, lo + 1, hi)

NanSum(f, lo, hi) ==
    IF \E k \in lo..hi : f[k] = NaN THEN NaN ELSE PlainSum(f, lo, hi)

(* The window the selector shows, by position *)
WindowTable == <<1, 2, 4, 8, 16>>

CurrentFile == disk[handles[reader.log_file].name]

---------------------------------------------------------------------------
(* C1: each channel buffer holds exactly the most recent min(n, 1800)
   samples appended since the last reset, oldest first, and so never more
   than 1800 entries. *)
C1_BufferIsRecentWindow ==
    \A l \in LabelSet :
        LET n   == Len(accepted)
            m   == Min(n, BufferCap)
            buf == window.data_buffers[l]
        IN  /\ Len(buf) = m
            /\ Len(buf) <= 1800
            /\ \A i \in 1..m :
                  buf[i] = <<accepted[n - m + i].t - window.graph_start_time,
                             accepted[n - m + i].data[KeyOf(l)]>>

C1_Witness ==
    /\ Len(accepted) = BufferCap + 2
    /\ \A l \in LabelSet : Len(window.data_buffers[l]) = BufferCap

(* C2: within a session no poll lowers cumulative_mAh; a reset sets it to 0. *)
C2_CumulativeMonotone ==
    [][/\ resets' = resets => reader'.cumulative_mAh >= reader.cumulative_mAh
       /\ ResetStep => reader'.cumulative_mAh = 0]_vars

C2_Witness ==
    /\ reader.cumulative_mAh > 0
    /\ lastRead # <<Marker, DataSubtype>>
    /\ resets > 0

(* The rectangle rule over the first k accepted samples of the session *)
RECURSIVE RectangleSum(_)
RectangleSum(k) ==
    IF k = 0 THEN 0
    ELSE RectangleSum(k - 1)
         + accepted[k].data.current
           * (accepted[k].t - (IF k = 1 THEN reader.start_time ELSE accepted[k - 1].t))

(* C3: cumulative_mAh is the sum over the accepted samples of
   I_k * (t_k - t_(k-1)) with t_0 the session start (in mAh after the fixed
   factor 1000 / 3600 of the units); for a constant current I it is
   I * (t_n - t_0). *)
C3_CumulativeIsRectangleSum ==
    LET n == Len(accepted)
    IN  /\ reader.cumulative_mAh = RectangleSum(n)
        /\ \A k \in 1..n : accepted[k].data.mah = RectangleSum(k)
        /\ (n > 0 /\ \A k \in 1..n : accepted[k].data.current = accepted[1].data.current)
              => reader.cumulative_mAh
                    = accepted[1].data.current * (accepted[n].t - reader.start_time)

C3_Witness ==
    /\ Len(accepted) >= 2
    /\ accepted[2].after # <<Marker, DataSubtype>>
    /\ accepted[1].data.current # accepted[2].data.current
    /\ reader.cumulative_mAh > 0

(* C4: the current log file is one header row followed by one data row per
   sample accepted since it was opened, in acceptance order. *)
C4_LogIsHeaderPlusAccepted ==
    LET f == CurrentFile
    IN  /\ Len(f) = 1 + Len(accepted)
        /\ f[1] = HeaderRow
        /\ \A k \in 1..Len(accepted) :
              LET a == accepted[k]
              IN  f[k + 1] = <<"data", <<Format2(a.t - reader.start_time), a.data.voltage,
                                         a.data.current, a.data.power, a.data.temperature,
                                         a.data.dp, a.data.dn, a.data.mah>>>>

C4_Witness ==
    /\ Len(accepted) >= 2
    /\ lastRead = <<Marker, 5>>
    /\ resets > 0
    /\ Len(handles) > 1 /\ handles[1].name = handles[Len(handles)].name

(* C5: a reset closes the old log before opening the next, opens a file
   whose name differs from the one of the session just ended, zeroes
   cumulative_mAh, sets start_time = last_timestamp = the reset time and
   leaves the device handle and endpoints alone. *)
C5_ResetOpensFreshFile ==
    [][ResetStep =>
          /\ ~handles'[reader.log_file].open
          /\ Cardinality({k \in 1..Len(handles') : handles'[k].open}) = 1
          /\ handles'[reader'.log_file].open
          /\ handles'[reader'.log_file].name # handles[reader.log_file].name
          /\ reader'.cumulative_mAh = 0
          /\ reader'.start_time = now'
          /\ reader'.last_timestamp = now'
          /\ reader'.device = reader.device
          /\ reader'.interface = reader.interface
          /\ reader'.ep_in = reader.ep_in
          /\ reader'.ep_out = reader.ep_out]_vars

(* C6 as written: with the selector on "None" the smoothed series of an
   update equals the raw series of the buffer. *)
C6_NoneShowsRaw ==
    [][(AcceptStep /\ window.selector = 0) =>
          \A l \in LabelSet :
              LET sm  == window'.smooth_curves[l]
                  buf == window'.data_buffers[l]
              IN  /\ Len(sm) = Len(buf)
                  /\ \A i \in 1..Len(buf) : sm[i] = <<buf[i][2], 1>>]_vars

(* C6 amended: with the selector on "None" an update leaves every smoothed
   curve empty, whatever the (non-empty) buffer holds. *)
C6_NoneClearsSmoothed ==
    [][(AcceptStep /\ window.selector = 0) =>
          \A l \in LabelSet :
              /\ window'.smooth_curves[l] = <<>>
              /\ Len(window'.data_buffers[l]) > 0]_vars

C6_Witness ==
    /\ window.selector = 0
    /\ Len(accepted) >= 17
    /\ \A l \in LabelSet : /\ window.smooth_curves[l] = <<>>
                           /\ Len(window.data_buffers[l]) >= 17

(* C7: for the window W of the selected entry, an update leaves the smoothed
   curve empty if W <= 1 or the buffer has fewer than W entries; otherwise
   the curve is as long as the buffer and its value at each index is the
   mean of the trailing min(index, W) raw values ending there. *)
C7_SmoothedIsTrailingMean ==
    [][AcceptStep =>
          \A l \in LabelSet :
              LET W   == WindowTable[window.selector + 1]
                  buf == window'.data_buffers[l]
                  y   == [i \in 1..Len(buf) |-> buf[i][2]]
                  sm  == window'.smooth_curves[l]
              IN  IF W <= 1 \/ Len(buf) < W
                  THEN sm = <<>>
                  ELSE /\ Len(sm) = Len(buf)
                       /\ \A i \in 1..Len(buf) :
                             LET m == Min(i, W)
                             IN  sm[i] = <<NanSum(y, i - m + 1, i), m>>]_vars

C7_Witness ==
    LET sm == window.smooth_curves["Temperature (C)"]
    IN  /\ Len(sm) >= 17
        /\ sm[17][2] = 16
        /\ sm[3][2] = 3
        /\ \E i \in 1..Len(sm) : sm[i][1] = NaN
        /\ \E i \in 1..Len(sm) : sm[i][1] # NaN

(* C8: a poll whose read raises or whose packet does not start with
   0xAA 0x04 emits nothing, writes no row and leaves the reader, the log,
   the buffers and the curves as they were; the poll timer stays armed. *)
C8_RejectedPollChangesNothing ==
    [][(PollStep /\ lastRead' # <<Marker, DataSubtype>>) =>
          /\ UNCHANGED <<reader, disk, window, accepted, handles, pdfs>>
          /\ alive'
          /\ pollDue' = now + Period]_vars

C8_Witness ==
    /\ Len(accepted) >= 1
    /\ accepted[1].after = <<0, DataSubtype>>
    /\ reader.cumulative_mAh > 0
    /\ lastRead = NoPacket
    /\ now >= accepted[1].t + Period

(* C9: the report takes as start index the first row with voltage > 0.1 and
   current > 0.01 and computes its statistics over the rows from there to
   the end only; with no such row no report is written. *)
C9_ReportFromStartIndex ==
    invoked # {} =>
        LET lines == disk[0]
            n     == Len(lines) - 1
            col(k) == [i \in 1..n |-> lines[i + 1][2][k]]
            Q     == {i \in 1..n : /\ 10 * col(2)[i] > VoltageScale
                                    /\ 100 * col(3)[i] > CurrentScale}
        IN  IF Q = {} THEN 0 \notin DOMAIN pdfs
            ELSE LET s   == CHOOSE i \in Q : \A j \in Q : i <= j
                     rep == pdfs[0]
                     cnt == n - s + 1
                     hi(k) == CHOOSE x \in {col(k)[i] : i \in s..n} :
                                  \A i \in s..n : x >= col(k)[i]
                     lo(k) == CHOOSE x \in {col(k)[i] : i \in s..n} :
                                  \A i \in s..n : x <= col(k)[i]
                 IN  /\ 0 \in DOMAIN pdfs
                     /\ rep.start_index = s
                     /\ rep.avg_voltage = <<NanSum(col(2), s, n), cnt>>
                     /\ rep.avg_current = <<NanSum(col(3), s, n), cnt>>
                     /\ rep.avg_power   = <<NanSum(col(4), s, n), cnt>>
                     /\ rep.avg_temp    = <<NanSum(col(5), s, n), cnt>>
                     /\ rep.max_current = hi(3) /\ rep.min_current = lo(3)
                     /\ rep.max_power = hi(4) /\ rep.min_power = lo(4)
                     /\ rep.start_voltage = col(2)[s]
                     /\ rep.start_current = col(3)[s]
                     /\ rep.start_temp = col(5)[s]
                     /\ rep.total_duration = col(1)[n] - col(1)[s]
                     /\ rep.total_mAh = col(8)[n] - col(8)[s]
                     /\ rep = [Report(<<HeaderRow>> \o SubSeq(lines, s + 1, n + 1))
                                  EXCEPT !.start_index = s]

C9_Witness ==
    /\ invoked # {}
    /\ 0 \in DOMAIN pdfs
    /\ pdfs[0].start_index = 3
    /\ Len(disk[0]) = 5
    /\ pdfs[0].avg_temp[1] # NaN

(* C10: a file handed to the report generator is closed when it is handed
   over and no row is written to it afterwards; a poll never finds the
   current log closed. *)
C10_ReportedFileIsFinal ==
    [][/\ \A f \in invoked' : ~f.open
       /\ \A f \in invoked : disk'[f.name] = disk[f.name]
       /\ alive' => handles'[reader'.log_file].open]_vars

====
